---- MODULE Spec2Model ----
(***************************************************************************)
(* Model of the ID3v2 tag decoder of mp3info (src/src/parser.rs and        *)
(* read_file of src/src/main.rs).                                          *)
(*                                                                         *)
(* Bytes are naturals 0..255, byte buffers are sequences of bytes, a       *)
(* cursor is the number of bytes already consumed.  A decoded String is    *)
(* the sequence of its code points.  A u32 is modelled as its two 16-bit   *)
(* halves wherever the code masks and shifts it, because the values do not *)
(* fit TLC's integers; it is turned into a number only where the   *)
(* code uses it as a length.                                               *)
(*                                                                         *)
(* Every function of the decoder ends in one of three ways, kept apart in  *)
(* the model: "ok" (Ok(..) is returned), "err" (Err(..) is returned) and   *)
(* "panic" (the thread unwinds: unwrap/expect on an Err, an arithmetic     *)
(* overflow, a capacity overflow of vec![0; n]).                           *)
(***************************************************************************)
EXTENDS Integers, Sequences, FiniteSets, TLC

VARIABLES
    pc,         \* position of the running function ("start", "frames", "done", ...)
    status,     \* how the function ended: "running", "ok", "err", "panic"
    word,       \* byte_int_unsynch / byte_int: the 4 input bytes
    out,        \* byte_int_unsynch: the returned u32
    hdr,        \* decode_header / read_file: the 10 header bytes
    header,     \* decode_header: the returned Header (NoHeader until then)
    file,       \* read_file: the bytes of the file
    fpos,       \* read_file: the file cursor (bytes of `file` consumed)
    buf,        \* decode_frames: the tag body (io::Cursor's inner Vec<u8>)
    pos,        \* decode_frames: buf.position()
    v4,         \* decode_frames: the v4 argument
    frames,     \* decode_frames: the frames pushed so far
    frameStart, \* decode_frames: cursor at the start of the frame last read
    frameEnd,   \* decode_frames: cursor when the frame last read was pushed
    declSize,   \* decode_frames: the first `size` binding of the frame last read
    encoding,   \* consume_null_terminated_str_bytes: the encoding argument
    strStart,   \* consume_null_terminated_str_bytes: the cursor at the call
    strbuf,     \* consume_null_terminated_str_bytes: the returned bytes
    written     \* the frames the tag body was written from (SpecWritten only)

vars == <<pc, status, word, out, hdr, header, file, fpos, buf, pos, v4, frames,
          frameStart, frameEnd, declSize, encoding, strStart, strbuf, written>>

None == "None"
\* No Header (before decode_header, or when it returns Err): a record of the
\* shape of Header that no header equals (its version is below 0).
NoHeader ==
    [version |-> 0 - 1, revision |-> 0, unsynchronisation |-> FALSE,
     extended |-> FALSE, experimental |-> FALSE, footer_present |-> FALSE,
     size |-> 0]

(***************************************************************************)
(* u32 arithmetic of byte_int and byte_int_unsynch: a u32 is the record of *)
(* its high and low 16 bits.                                               *)
(***************************************************************************)
Pow2(n) == 2 ^ n

BitOf(byte, i) == (byte \div Pow2(i)) % 2

\* Bitwise & and | of two naturals.
RECURSIVE NatAnd(_, _)
NatAnd(a, b) ==
    IF a = 0 \/ b = 0 THEN 0
    ELSE (a % 2) * (b % 2) + 2 * NatAnd(a \div 2, b \div 2)

RECURSIVE NatOr(_, _)
NatOr(a, b) ==
    IF a = 0 THEN b
    ELSE IF b = 0 THEN a
    ELSE (IF (a % 2) + (b % 2) > 0 THEN 1 ELSE 0) + 2 * NatOr(a \div 2, b \div 2)

\* u32::from_be_bytes: b[1] is the most significant byte.
U32FromBeBytes(b) == [hi |-> b[1] * 256 + b[2], lo |-> b[3] * 256 + b[4]]

\* The literal 0xFF << (8*k) as a u32, k in 0..3.
U32ByteMask(k) ==
    CASE k = 0 -> [hi |-> 0, lo |-> 255]
      [] k = 1 -> [hi |-> 0, lo |-> 65280]
      [] k = 2 -> [hi |-> 255, lo |-> 0]
      [] k = 3 -> [hi |-> 65280, lo |-> 0]

U32And(x, y) == [hi |-> NatAnd(x.hi, y.hi), lo |-> NatAnd(x.lo, y.lo)]

U32Or(x, y) == [hi |-> NatOr(x.hi, y.hi), lo |-> NatOr(x.lo, y.lo)]

\* x >> n for n in 0..15: the low n bits of the high half move into the top
\* of the low half.
U32Shr(x, n) ==
    [hi |-> x.hi \div Pow2(n),
     lo |-> x.lo \div Pow2(n) + (x.hi % Pow2(n)) * Pow2(16 - n)]

\* The greatest integer of TLC, which stands for every u32 with bit 31
\* set: as a length each of them is greater than any buffer of the model.
U32Huge == 2147483647

\* `as usize`: the number a u32 stands for.
U32ToNat(x) == IF x.hi >= 32768 THEN U32Huge ELSE x.hi * 65536 + x.lo

byte_int_bits(b) == U32FromBeBytes(b)

byte_int(b) == U32ToNat(byte_int_bits(b))

\* be_int & 0xFF | (be_int & 0xFF00) >> 1 | (be_int & 0xFF_0000) >> 2
\*               | (be_int & 0xFF00_0000) >> 3
byte_int_unsynch(b) ==
    LET be_int == byte_int_bits(b)
    IN  U32ToNat(U32Or(U32Or(U32Or(U32And(be_int, U32ByteMask(0)),
                                    U32Shr(U32And(be_int, U32ByteMask(1)), 1)),
                              U32Shr(U32And(be_int, U32ByteMask(2)), 2)),
                       U32Shr(U32And(be_int, U32ByteMask(3)), 3)))

is_bit_set(flag, index) == BitOf(flag, index) # 0

(***************************************************************************)
(* Specification SpecSynch: byte_int_unsynch applied to 4 bytes.           *)
(***************************************************************************)
SynchBytes == {0, 1, 2, 127, 128, 255}

\* The variables of the functions a specification does not run.
IdleWord == word = <<>> /\ out = 0

IdleHeader == hdr = <<>> /\ header = NoHeader

IdleFile == file = <<>> /\ fpos = 0

IdleFrames ==
    /\ buf = <<>> /\ pos = 0 /\ v4 = FALSE /\ frames = <<>>
    /\ frameStart = 0 /\ frameEnd = 0 /\ declSize = 0

IdleStr == encoding = None /\ strStart = 0 /\ strbuf = <<>>

NotWritten == written = <<>>

InitSynch ==
    /\ pc = "start" /\ status = "running"
    /\ word \in [1..4 -> SynchBytes]
    /\ out = 0
    /\ IdleHeader /\ IdleFile /\ IdleFrames /\ IdleStr /\ NotWritten

ByteIntUnsynch ==
    /\ pc = "start"
    /\ out' = byte_int_unsynch(word)
    /\ pc' = "done" /\ status' = "ok"
    /\ UNCHANGED <<word, hdr, header, file, fpos, buf, pos, v4, frames,
                   frameStart, frameEnd, declSize, encoding, strStart, strbuf, written>>

NextSynch == ByteIntUnsynch

SpecSynch == InitSynch /\ [][NextSynch]_vars

\* The synchsafe value of 4 bytes: the low 7 bits of each, first byte most
\* significant.
Synchsafe(b) ==
    (b[1] % 128) * Pow2(21) + (b[2] % 128) * Pow2(14) + (b[3] % 128) * Pow2(7)
        + (b[4] % 128)

\* Packing a 28-bit value 7 bits per byte.
SynchsafePack(n) ==
    <<(n \div Pow2(21)) % 128, (n \div Pow2(14)) % 128, (n \div Pow2(7)) % 128, n % 128>>

\* C6 (as stated): for every 4-byte input byte_int_unsynch returns the 28-bit
\* number made of the low 7 bits of each byte, first byte most significant;
\* so bit 7 of a byte has no effect and the result never exceeds 0x0FFFFFFF.
C6_UnsynchIsSynchsafe ==
    pc = "done" =>
        /\ out = Synchsafe(word)
        /\ out <= 268435455

\* C6, the part the code keeps: on inputs whose bit 7s are all clear the
\* result is the synchsafe value and packing it gives the input back.
C6_UnsynchOnCleanInput ==
    (pc = "done" /\ \A i \in 1..4 : word[i] < 128) =>
        /\ out = Synchsafe(word)
        /\ SynchsafePack(out) = word

(***************************************************************************)
(* Specification SpecHeader: decode_header applied to 10 bytes.            *)
(***************************************************************************)
\* "ID3" as bytes.
MagicID3 == <<73, 68, 51>>

\* String::from_utf8 succeeds.  The inputs of the model are ASCII bytes and
\* 0xFF, which no UTF-8 sequence contains; multi-byte sequences are not
\* among them.
Utf8Ok(b) == \A i \in 1..Len(b) : b[i] < 128

decode_header(b) ==
    IF ~Utf8Ok(SubSeq(b, 1, 3)) THEN [st |-> "err", header |-> NoHeader]
    ELSE IF SubSeq(b, 1, 3) # MagicID3 THEN [st |-> "err", header |-> NoHeader]
    ELSE LET flag == b[6]
         IN  [st |-> "ok",
              header |-> [version |-> b[4],
                          revision |-> b[5],
                          unsynchronisation |-> is_bit_set(flag, 7),
                          extended |-> is_bit_set(flag, 6),
                          experimental |-> is_bit_set(flag, 5),
                          footer_present |-> is_bit_set(flag, 4),
                          size |-> byte_int_unsynch(SubSeq(b, 7, 10))]]

HeaderMagics == {MagicID3, <<73, 68, 50>>, <<105, 100, 51>>, <<255, 68, 51>>}

HeaderVersions == {2, 3, 4}

HeaderRevisions == {0, 1}

HeaderFlags == {0, 15, 16, 32, 64, 128, 79, 255}

HeaderSizes == {<<0, 0, 2, 0>>, <<0, 0, 0, 0>>, <<0, 0, 0, 127>>, <<127, 127, 127, 127>>,
                <<0, 0, 0, 128>>, <<0, 0, 129, 0>>, <<255, 255, 255, 255>>}

InitHeader ==
    /\ pc = "start" /\ status = "running"
    /\ \E m \in HeaderMagics, ver \in HeaderVersions, rev \in HeaderRevisions,
          fl \in HeaderFlags, sz \in HeaderSizes :
            hdr = m \o <<ver, rev, fl>> \o sz
    /\ header = NoHeader
    /\ IdleWord /\ IdleFile /\ IdleFrames /\ IdleStr /\ NotWritten

DecodeHeader ==
    /\ pc = "start"
    /\ LET r == decode_header(hdr)
       IN  /\ header' = r.header
           /\ status' = r.st
    /\ pc' = "done"
    /\ UNCHANGED <<word, out, hdr, file, fpos, buf, pos, v4, frames,
                   frameStart, frameEnd, declSize, encoding, strStart, strbuf, written>>

NextHeader == DecodeHeader

SpecHeader == InitHeader /\ [][NextHeader]_vars

\* C7 (as stated): decode_header returns an error and no Header exactly when
\* bytes 0-2 are not "ID3"; otherwise a Header with version = byte 3,
\* revision = byte 4, the four flags = bits 7/6/5/4 of byte 5 (the low 4 bits
\* having no effect) and size = the synchsafe value of bytes 6-9.
C7_HeaderFields ==
    pc = "done" =>
        /\ (status = "err") <=> (SubSeq(hdr, 1, 3) # MagicID3)
        /\ status = "err" => header = NoHeader
        /\ status # "err" =>
              /\ status = "ok"
              /\ header.version = hdr[4]
              /\ header.revision = hdr[5]
              /\ header.unsynchronisation = (hdr[6] \div 128 = 1)
              /\ header.extended = ((hdr[6] % 128) \div 64 = 1)
              /\ header.experimental = ((hdr[6] % 64) \div 32 = 1)
              /\ header.footer_present = ((hdr[6] % 32) \div 16 = 1)
              /\ header.size = Synchsafe(SubSeq(hdr, 7, 10))

\* C7 without its size clause, and the size clause on size bytes whose bit 7s
\* are clear (00 00 02 00 gives 256): what decode_header keeps of it.
C7_HeaderFieldsCleanSize ==
    pc = "done" =>
        /\ (status = "err") <=> (SubSeq(hdr, 1, 3) # MagicID3)
        /\ status = "err" => header = NoHeader
        /\ status # "err" =>
              /\ status = "ok"
              /\ header.version = hdr[4]
              /\ header.revision = hdr[5]
              /\ header.unsynchronisation = (hdr[6] \div 128 = 1)
              /\ header.extended = ((hdr[6] % 128) \div 64 = 1)
              /\ header.experimental = ((hdr[6] % 64) \div 32 = 1)
              /\ header.footer_present = ((hdr[6] % 32) \div 16 = 1)
              /\ (\A i \in 7..10 : hdr[i] < 128) =>
                    header.size = Synchsafe(SubSeq(hdr, 7, 10))
              /\ SubSeq(hdr, 7, 10) = <<0, 0, 2, 0>> => header.size = 256

(***************************************************************************)
(* Readers over a cursor: each takes the buffer b and the cursor p and     *)
(* returns the bytes read and the cursor after them.                       *)
(***************************************************************************)
\* vec![0; size] then read_exact: fails (UnexpectedEof) when fewer than `size`
\* bytes remain; the cursor of a failed read is never used again.
consume_bytes(b, p, size) ==
    IF size <= Len(b) - p
    THEN [ok |-> TRUE, bytes |-> SubSeq(b, p + 1, p + size), pos |-> p + size]
    ELSE [ok |-> FALSE, bytes |-> <<>>, pos |-> p]

\* read_until(0x0): up to and including the first 0x00, or to the end.
RECURSIVE read_until_zero(_, _, _)
read_until_zero(b, p, acc) ==
    IF p >= Len(b) THEN [bytes |-> acc, pos |-> p]
    ELSE IF b[p + 1] = 0 THEN [bytes |-> Append(acc, 0), pos |-> p + 1]
    ELSE read_until_zero(b, p + 1, Append(acc, b[p + 1]))

consume_c_str_bytes(b, p) == read_until_zero(b, p, <<>>)

\* last_byte = None (no byte is -1).
NoByte == 0 - 1

utf16_terminator_any_offset(sb, last, x) == last # NoByte /\ last = 0 /\ x = 0

\* The guard of the match arm that ends the run.
utf16_terminator(sb, last, x) ==
    last # NoByte /\ Len(sb) % 2 # 0 /\ last = 0 /\ x = 0

\* for b in buf.bytes(): one iteration per call.
RECURSIVE utf16_loop(_, _, _, _)
utf16_loop(b, p, sb, last) ==
    IF p >= Len(b) THEN [bytes |-> sb, pos |-> p]
    ELSE LET x == b[p + 1]
         IN  IF utf16_terminator(sb, last, x)
             THEN [bytes |-> Append(sb, x), pos |-> p + 1]
             ELSE utf16_loop(b, p + 1, Append(sb, x), x)

consume_utf16_str_bytes(b, p) == utf16_loop(b, p, <<>>, NoByte)

Encodings == {"ISO_8859_1", "UTF_16", "UTF_16BE", "UTF_8"}

consume_null_terminated_str_bytes(b, p, enc) ==
    IF enc \in {"UTF_8", "ISO_8859_1"} THEN consume_c_str_bytes(b, p)
    ELSE consume_utf16_str_bytes(b, p)

\* Encoding::try_from(u8)
EncodingTryFrom(value) ==
    CASE value = 0 -> [ok |-> TRUE, enc |-> "ISO_8859_1"]
      [] value = 1 -> [ok |-> TRUE, enc |-> "UTF_16"]
      [] value = 2 -> [ok |-> TRUE, enc |-> "UTF_16BE"]
      [] value = 3 -> [ok |-> TRUE, enc |-> "UTF_8"]
      [] OTHER -> [ok |-> FALSE, enc |-> None]

\* The 16-bit units of a byte run, low byte first (UTF_16LE) or high byte
\* first (UTF_16BE).
Utf16Units(b, lowFirst) ==
    [i \in 1..(Len(b) \div 2) |->
        IF lowFirst THEN b[2 * i - 1] + 256 * b[2 * i]
        ELSE 256 * b[2 * i - 1] + b[2 * i]]

IsSurrogate(u) == u >= 55296 /\ u <= 57343

\* Strict UTF-16 decoding: an odd byte count or a lone surrogate is an error.
\* The inputs of the model hold no surrogate, so pairs are not modelled.
Utf16Decode(b, lowFirst) ==
    LET u == Utf16Units(b, lowFirst)
    IN  IF Len(b) % 2 # 0 \/ \E i \in 1..Len(u) : IsSurrogate(u[i])
        THEN [ok |-> FALSE, str |-> <<>>]
        ELSE [ok |-> TRUE, str |-> u]

\* decode_str with DecoderTrap::Strict.  Encoding::UTF_16 is decoded by
\* UTF_16LE (the byte order mark is kept as U+FEFF, or U+FFFE).
decode_str(b, enc) ==
    CASE enc = "UTF_8" ->
            IF Utf8Ok(b) THEN [ok |-> TRUE, str |-> b] ELSE [ok |-> FALSE, str |-> <<>>]
      [] enc = "UTF_16" -> Utf16Decode(b, TRUE)
      [] enc = "UTF_16BE" -> Utf16Decode(b, FALSE)
      [] enc = "ISO_8859_1" -> [ok |-> TRUE, str |-> b]

(***************************************************************************)
(* Specification SpecStr: consume_null_terminated_str_bytes applied to a   *)
(* cursor over a byte buffer.                                              *)
(***************************************************************************)
MaxStrLen == 6

StrBytes == {0, 65, 255}

StrBufs == UNION {[1..n -> StrBytes] : n \in 0..MaxStrLen}

InitStr ==
    /\ pc = "start" /\ status = "running"
    /\ buf \in StrBufs
    /\ pos \in {0, 1} /\ pos <= Len(buf)
    /\ strStart = pos
    /\ encoding \in Encodings
    /\ strbuf = <<>>
    /\ v4 = FALSE /\ frames = <<>> /\ frameStart = 0 /\ frameEnd = 0 /\ declSize = 0
    /\ IdleWord /\ IdleHeader /\ IdleFile /\ NotWritten

ConsumeNullTerminatedStrBytes ==
    /\ pc = "start"
    /\ LET r == consume_null_terminated_str_bytes(buf, pos, encoding)
       IN  /\ strbuf' = r.bytes
           /\ pos' = r.pos
    /\ pc' = "done" /\ status' = "ok"
    /\ UNCHANGED <<word, out, hdr, header, file, fpos, buf, v4, frames,
                   frameStart, frameEnd, declSize, encoding, strStart, written>>

NextStr == ConsumeNullTerminatedStrBytes

SpecStr == InitStr /\ [][NextStr]_vars

\* The bytes of the stream from the cursor at the call.
StrRest == SubSeq(buf, strStart + 1, Len(buf))

\* The offsets (from the start of the run) at which a 0x00 0x00 pair begins.
ZeroPairsAt(r) == {k \in 0..(Len(r) - 2) : r[k + 1] = 0 /\ r[k + 2] = 0}

AlignedPairs(r) == {k \in ZeroPairsAt(r) : k % 2 = 0}

FirstOf(S) == CHOOSE k \in S : \A j \in S : k <= j

\* C10: for the UTF-16 encodings consume_null_terminated_str_bytes returns
\* the bytes up to and including the first 0x00 0x00 pair that begins at an
\* even offset of the run, both terminator bytes kept, and leaves the cursor
\* right after them; a pair at an odd offset does not end the run; with no
\* aligned pair the run is all the remaining bytes.
C10_Utf16RunEndsAtAlignedPair ==
    (pc = "done" /\ encoding \in {"UTF_16", "UTF_16BE"}) =>
        IF AlignedPairs(StrRest) = {}
        THEN strbuf = StrRest /\ pos = Len(buf)
        ELSE LET k == FirstOf(AlignedPairs(StrRest))
             IN  /\ strbuf = SubSeq(StrRest, 1, k + 2)
                 /\ pos = strStart + k + 2

\* A run that passes a 0x00 0x00 pair at an odd offset, ends at an aligned
\* pair and leaves bytes of the stream unread.
C10_Witness ==
    /\ pc = "done" /\ encoding \in {"UTF_16", "UTF_16BE"}
    /\ \E k \in ZeroPairsAt(strbuf) : k % 2 = 1 /\ k + 2 < Len(strbuf)
    /\ AlignedPairs(StrRest) # {}
    /\ pos < Len(buf)

(***************************************************************************)
(* decode_frames                                                           *)
(***************************************************************************)
TXXX == <<84, 88, 88, 88>>
USLT == <<85, 83, 76, 84>>
COMM == <<67, 79, 77, 77>>
APIC == <<65, 80, 73, 67>>
RVAD == <<82, 86, 65, 68>>
RVA2 == <<82, 86, 65, 50>>
SYLT == <<83, 89, 76, 84>>
TIT2 == <<84, 73, 84, 50>>
\* "INVALID"
INVALID == <<73, 78, 86, 65, 76, 73, 68>>

\* The greatest discriminant of PictureType (PublisherLogo = 20).
MaxPictureType == 20

\* What one frame's decoding gives: st is "ok", "err" or "panic", pos the
\* cursor after the frame, frame the Frame value.
FrameOk(p, f) == [st |-> "ok", pos |-> p, frame |-> f]

FrameErr == [st |-> "err", pos |-> 0, frame |-> None]

FramePanic == [st |-> "panic", pos |-> 0, frame |-> None]

OtherText(id, str) == [kind |-> "Other", id |-> id, content |-> [text |-> str]]

OtherBinary(id, bytes) == [kind |-> "Other", id |-> id, content |-> [binary |-> bytes]]

\* A usize subtraction a - b with a < b panics when overflow checks are on,
\* and otherwise wraps to a length above isize::MAX, on which vec![0; n]
\* panics (capacity overflow): consume_bytes of it panics in both builds.
consume_bytes_sub(b, p, a, minus) ==
    IF a < minus THEN [ok |-> FALSE, panic |-> TRUE, bytes |-> <<>>, pos |-> p]
    ELSE [panic |-> FALSE] @@ consume_bytes(b, p, a - minus)

\* "TXXX" => { ... }
decode_txxx(b, p, size, enc, id) ==
    LET d == consume_null_terminated_str_bytes(b, p, enc)
        description == decode_str(d.bytes, enc)
        v == consume_bytes_sub(b, d.pos, size, Len(d.bytes))
        value == decode_str(v.bytes, enc)
    IN  IF ~description.ok THEN FrameErr
        ELSE IF v.panic THEN FramePanic
        ELSE IF ~v.ok THEN FrameErr
        ELSE IF ~value.ok THEN FrameErr
        ELSE FrameOk(v.pos, OtherText(id, description.str \o value.str))

\* "USLT" => { ... } and "COMM" => { ... }: the same reads; they differ in
\* the Frame built.
decode_lang_desc_text(b, p, size, enc, id) ==
    LET l == consume_bytes(b, p, 3)
        language == decode_str(l.bytes, "UTF_8")
        d == consume_null_terminated_str_bytes(b, l.pos, enc)
        description == decode_str(d.bytes, enc)
        v == consume_bytes_sub(b, d.pos, size + 1, 1 + 3 + Len(d.bytes))
        value == decode_str(v.bytes, enc)
    IN  IF ~l.ok THEN FrameErr
        ELSE IF ~language.ok THEN FrameErr
        ELSE IF ~description.ok THEN FrameErr
        ELSE IF v.panic THEN FramePanic
        ELSE IF ~v.ok THEN FrameErr
        ELSE IF ~value.ok THEN FrameErr
        ELSE IF id = USLT
             THEN FrameOk(v.pos, [kind |-> "Uslt", text |-> value.str,
                                  language |-> language.str,
                                  description |-> description.str])
             ELSE FrameOk(v.pos, OtherText(id, value.str))

\* picture_type.try_into().unwrap(): the transmute of the byte into
\* Result<PictureType, ()>.  0..20 are Ok(variant); 21 is the niche that
\* stands for Err(()), on which unwrap panics; any other byte is no value of
\* the type (undefined behaviour): `ub` is what the build makes of it, a
\* panic or the byte kept as the picture_type.
picture_type_try_into_unwrap(byte, ub) ==
    IF byte <= MaxPictureType THEN [panic |-> FALSE, picture_type |-> byte]
    ELSE IF byte = MaxPictureType + 1 THEN [panic |-> TRUE, picture_type |-> byte]
    ELSE [panic |-> (ub = "panic"), picture_type |-> byte]

\* "APIC" => { ... }
decode_apic(b, p, size, enc, id, ub) ==
    LET m == consume_c_str_bytes(b, p)
        mime_type == decode_str(m.bytes, "UTF_8")
        t == consume_bytes(b, m.pos, 1)
        d == consume_null_terminated_str_bytes(b, t.pos, enc)
        description == decode_str(d.bytes, enc)
        pic == consume_bytes_sub(b, d.pos, size + 1,
                                 2 + Len(mime_type.str) + Len(d.bytes))
        pt == picture_type_try_into_unwrap(t.bytes[1], ub)
    IN  IF ~mime_type.ok THEN FrameErr
        ELSE IF ~t.ok THEN FrameErr
        ELSE IF ~description.ok THEN FrameErr
        ELSE IF pic.panic THEN FramePanic
        ELSE IF ~pic.ok THEN FrameErr
        ELSE IF pt.panic THEN FramePanic
        ELSE FrameOk(pic.pos, [kind |-> "Apic", data |-> pic.bytes,
                               picture_type |-> pt.picture_type,
                               description |-> description.str])

\* "RVAD" | "RVA2" => { ... } and "SYLT" => { ... }
decode_binary(b, p, size, id) ==
    LET r == consume_bytes(b, p, size + 1)
    IN  IF ~r.ok THEN FrameErr ELSE FrameOk(r.pos, OtherBinary(id, r.bytes))

\* _ => { read_text_from_buf(..)? }: a short read panics (expect).
decode_text(b, p, size, enc, id) ==
    LET r == consume_bytes(b, p, size)
        text == decode_str(r.bytes, enc)
    IN  IF ~r.ok THEN FramePanic
        ELSE IF ~text.ok THEN FrameErr
        ELSE FrameOk(r.pos, OtherText(id, text.str))

\* if v4 { byte_int_unsynch(&b) as usize } else { byte_int(&b) as usize }
frame_size(b, isV4) == IF isV4 THEN byte_int_unsynch(b) ELSE byte_int(b)

\* if size > 0 { size - 1 } else { size }
adjusted_size(size) == IF size > 0 THEN size - 1 ELSE size

NoEncodingIds == {RVAD, RVA2, SYLT}

\* One pass of the loop body up to frames.push: the frame that starts at
\* cursor p.  `declared` is the size field as decoded (0 when it was not
\* read).
decode_frame(b, p, isV4, ub) ==
    LET i == consume_bytes(b, p, 4)
        id == IF Utf8Ok(i.bytes) THEN i.bytes ELSE INVALID
        s == consume_bytes(b, i.pos, 4)
        declared == IF s.ok THEN frame_size(s.bytes, isV4) ELSE 0
        f == consume_bytes(b, s.pos, 2)
        e == IF id \in NoEncodingIds
             THEN [ok |-> TRUE, bytes |-> <<3>>, pos |-> f.pos]
             ELSE consume_bytes(b, f.pos, 1)
        enc == EncodingTryFrom(e.bytes[1])
        size == adjusted_size(declared)
        r == IF ~i.ok \/ ~s.ok \/ ~f.ok \/ ~e.ok THEN FrameErr
             ELSE IF ~enc.ok THEN FrameErr
             ELSE CASE id = TXXX -> decode_txxx(b, e.pos, size, enc.enc, id)
                    [] id \in {USLT, COMM} ->
                           decode_lang_desc_text(b, e.pos, size, enc.enc, id)
                    [] id = APIC -> decode_apic(b, e.pos, size, enc.enc, id, ub)
                    [] id \in NoEncodingIds -> decode_binary(b, e.pos, size, id)
                    [] OTHER -> decode_text(b, e.pos, size, enc.enc, id)
    IN  r @@ [declared |-> declared]

U32IsZero_inverted(x) == x.hi # 0 \/ x.lo # 0

\* The u32 is zero (num == 0).
U32IsZero(x) == x.hi = 0 /\ x.lo = 0

\* What the build can make of an invalid PictureType.
UbOutcomes == {"panic", "value"}

\* One iteration of the loop of decode_frames: a frame is decoded and
\* pushed, then the next 4 bytes are looked at: a short read or a zero ends
\* the loop with Ok(frames), anything else puts the cursor back.  An Err or
\* a panic ends the function, and the frames decoded so far are dropped.
DecodeFrame ==
    /\ pc = "frames"
    /\ \E ub \in UbOutcomes :
        LET r == decode_frame(buf, pos, v4, ub)
            peek == consume_bytes(buf, r.pos, 4)
        IN  /\ frameStart' = pos
            /\ declSize' = r.declared
            /\ IF r.st # "ok"
               THEN /\ status' = r.st
                    /\ pc' = "done"
                    /\ frames' = <<>>
                    /\ UNCHANGED <<pos, frameEnd>>
               ELSE /\ frames' = Append(frames, r.frame)
                    /\ frameEnd' = r.pos
                    /\ IF ~peek.ok
                       THEN pos' = r.pos /\ pc' = "done" /\ status' = "ok"
                       ELSE IF U32IsZero(byte_int_bits(peek.bytes))
                       THEN pos' = peek.pos /\ pc' = "done" /\ status' = "ok"
                       ELSE pos' = r.pos /\ pc' = "frames" /\ status' = "running"
    /\ UNCHANGED <<word, out, hdr, header, file, fpos, buf, v4, encoding,
                   strStart, strbuf, written>>

(***************************************************************************)
(* Specification Spec: decode_frames on a tag body that holds an optional  *)
(* well-formed text frame, then one frame whose id, declared size and      *)
(* bytes are arbitrary, then nothing or padding; or padding alone.         *)
(***************************************************************************)
MaxBody == 4

BodyBytes == {0, 1, 255}

Bodies == UNION {[1..n -> BodyBytes] : n \in 0..MaxBody}

DeclaredSizes == 0..(MaxBody + 1)

FrameIds == {TXXX, USLT, COMM, APIC, RVAD, RVA2, SYLT, TIT2, <<84, 255, 84, 50>>}

\* A size below 128 as the 4 bytes of a size field (the same bytes plain and
\* synchsafe).
SizeField(n) == <<0, 0, 0, n>>

\* The bytes of a frame: id, size, two flag bytes, body.
RawFrame(id, size, body) == id \o SizeField(size) \o <<0, 0>> \o body

\* TIT2, ISO-8859-1, "A".
LeadFrame == RawFrame(TIT2, 2, <<0, 65>>)

Padding == <<0, 0, 0, 0>>

InitFrames(b) ==
    /\ pc = "frames" /\ status = "running"
    /\ buf = b
    /\ pos = 0 /\ frames = <<>>
    /\ frameStart = 0 /\ frameEnd = 0 /\ declSize = 0
    /\ IdleWord /\ IdleHeader /\ IdleFile /\ IdleStr

Init ==
    /\ v4 \in BOOLEAN
    /\ NotWritten
    /\ \E lead \in {<<>>, LeadFrame}, id \in FrameIds, size \in DeclaredSizes,
          body \in Bodies, tail \in {<<>>, Padding} :
            InitFrames(lead \o RawFrame(id, size, body) \o tail)

Next == DecodeFrame

Spec == Init /\ [][Next]_vars

(***************************************************************************)
(* The frame last read, as the bytes of the buffer give it.                *)
(***************************************************************************)
\* The 10 header bytes of the frame last read were all there.
LastHeaderRead == Len(buf) >= frameStart + 10

LastIdBytes == SubSeq(buf, frameStart + 1, frameStart + 4)

\* The frame last read has an encoding byte, and it is a valid one.
LastHasEncoding ==
    /\ Len(buf) >= frameStart + 11
    /\ LastIdBytes \notin NoEncodingIds
    /\ buf[frameStart + 11] \in 0..3

LastEncoding == EncodingTryFrom(buf[frameStart + 11]).enc

\* The declared size less the encoding byte.
LastAdjustedSize == declSize - 1

\* The bytes from the cursor p up to and including the terminator of a
\* null-terminated string in the encoding of the frame last read.
LastTerminated(p) == consume_null_terminated_str_bytes(buf, p, LastEncoding)

\* The number of bytes the leading fields of the frame last read take
\* (language code, MIME string, picture-type byte, description with its
\* terminator), for the four ids that have such fields.
LastLeadingLen ==
    LET p == frameStart + 11
    IN  CASE LastIdBytes = TXXX -> Len(LastTerminated(p).bytes)
          [] LastIdBytes \in {USLT, COMM} -> 3 + Len(LastTerminated(p + 3).bytes)
          [] LastIdBytes = APIC ->
                LET m == consume_c_str_bytes(buf, p)
                IN  Len(m.bytes) + 1 + Len(LastTerminated(m.pos + 1).bytes)

\* The leading fields of the frame last read are all in the buffer, and
\* take more bytes than the adjusted size of the frame.
LastLeadingExceedsSize ==
    /\ LastHasEncoding
    /\ LastIdBytes \in {TXXX, USLT, COMM, APIC}
    /\ declSize >= 1
    /\ frameStart + 11 + LastLeadingLen <= Len(buf)
    /\ LastLeadingLen > LastAdjustedSize

\* C1 (as stated): decoding a frame of declared size S >= 0, whatever its
\* id, moves the cursor by exactly 10 + S bytes from the start of the frame.
C1_CursorAdvancesBySize ==
    (frames # <<>> /\ status \in {"running", "ok"}) =>
        frameEnd = frameStart + 10 + declSize

\* C3 (as stated): when the leading fields of a TXXX, USLT, COMM or APIC
\* frame take more bytes than the adjusted size of the frame, decode_frames
\* returns an error; it neither panics nor goes on with a wrapped length.
C3_UnderflowIsAnError ==
    (pc = "done" /\ LastLeadingExceedsSize) => status = "err"

\* The picture-type byte of the frame last read, an APIC frame whose MIME
\* string and picture-type byte are in the buffer.
LastIsApicWithType ==
    /\ LastHasEncoding
    /\ LastIdBytes = APIC
    /\ consume_c_str_bytes(buf, frameStart + 11).pos < Len(buf)

LastPictureTypePos == consume_c_str_bytes(buf, frameStart + 11).pos + 1

LastPictureTypeByte == buf[LastPictureTypePos]

\* The frame last read is an APIC frame that decodes once its picture-type
\* byte is replaced by 0: nothing but the picture type can make it fail.
LastIsApicButForType ==
    /\ LastIsApicWithType
    /\ decode_frame([buf EXCEPT ![LastPictureTypePos] = 0], frameStart, v4, "panic").st = "ok"

\* C4 (as stated): an APIC frame whose picture-type byte is outside 0..20
\* makes decode_frames fail with an error, and every AttachedPicture frame
\* it holds has a picture_type in 0..20.
C4_PictureTypeChecked ==
    /\ \A i \in 1..Len(frames) :
          frames[i].kind = "Apic" => frames[i].picture_type \in 0..MaxPictureType
    /\ (pc = "done" /\ LastIsApicButForType /\ LastPictureTypeByte > MaxPictureType)
          => status = "err"

\* C5 (as stated): a frame, whatever its id, whose declared size is greater
\* than the number of bytes left in the buffer after its header ends
\* decode_frames with an error and no frames.
C5_OversizeIsAnError ==
    (pc = "done" /\ LastHeaderRead /\ declSize > Len(buf) - (frameStart + 10))
        => (status = "err" /\ frames = <<>>)

(***************************************************************************)
(* Specification SpecWritten: decode_frames on a tag body written from     *)
(* well-formed frames (ID3v2 frame layouts, declared size = length of the  *)
(* body, at least 1), followed by padding or by fewer than 4 bytes.        *)
(***************************************************************************)
MaxWrittenFrames == 2

MaxWrittenText == 1

\* The texts written: "", "A", "AA", ...
WrittenTexts == {[i \in 1..n |-> 65] : n \in 0..MaxWrittenText}

\* The bytes of a text in the encoding of an encoding byte: one byte per
\* character (0: ISO-8859-1, 3: UTF-8; the characters are ASCII), a byte
\* order mark and low byte first (1: UTF-16), high byte first (2: UTF-16BE).
RECURSIVE TextUnits(_, _)
TextUnits(t, lowFirst) ==
    IF t = <<>> THEN <<>>
    ELSE (IF lowFirst THEN <<Head(t) % 256, Head(t) \div 256>>
          ELSE <<Head(t) \div 256, Head(t) % 256>>) \o TextUnits(Tail(t), lowFirst)

TextBytes(e, t) ==
    CASE e \in {0, 3} -> t
      [] e = 1 -> <<255, 254>> \o TextUnits(t, TRUE)
      [] e = 2 -> TextUnits(t, FALSE)

TerminatorBytes(e) == IF e \in {0, 3} THEN <<0>> ELSE <<0, 0>>

\* A written frame: its id, its body, and the fields a decoder is to find
\* in it (the byte runs of its texts and its raw bytes).
Written(id, body, fields) == [id |-> id, body |-> body, fields |-> fields]

WrittenTextFrames ==
    {Written(TIT2, <<e>> \o TextBytes(e, t), [enc |-> e, text |-> TextBytes(e, t)]) :
        e \in 0..3, t \in WrittenTexts}

WrittenTxxxFrames ==
    {Written(TXXX,
             <<e>> \o TextBytes(e, d) \o TerminatorBytes(e) \o TextBytes(e, <<66>>),
             [enc |-> e, description |-> TextBytes(e, d) \o TerminatorBytes(e),
              text |-> TextBytes(e, <<66>>)]) :
        e \in 0..3, d \in WrittenTexts}

\* "eng"
Eng == <<101, 110, 103>>

WrittenLangFrames ==
    {Written(id,
             <<e>> \o Eng \o TextBytes(e, d) \o TerminatorBytes(e) \o TextBytes(e, <<66>>),
             [enc |-> e, language |-> Eng,
              description |-> TextBytes(e, d) \o TerminatorBytes(e),
              text |-> TextBytes(e, <<66>>)]) :
        id \in {USLT, COMM}, e \in 0..3, d \in WrittenTexts}

\* "i/p" and its terminator
Mime == <<105, 47, 112, 0>>

\* Picture bytes with a run of zero bytes in them.
PictureData == <<137, 0, 0, 0, 0, 7>>

WrittenApicFrames ==
    {Written(APIC,
             <<e>> \o Mime \o <<t>> \o TextBytes(e, d) \o TerminatorBytes(e) \o PictureData,
             [enc |-> e, picture_type |-> t,
              description |-> TextBytes(e, d) \o TerminatorBytes(e),
              data |-> PictureData]) :
        e \in 0..3, t \in {3, MaxPictureType}, d \in WrittenTexts}

WrittenBinaryFrames ==
    {Written(id, data, [data |-> data]) :
        id \in {RVAD, RVA2, SYLT}, data \in {<<7>>, <<1, 0, 0, 0, 0, 7>>}}

WrittenFrames ==
    WrittenTextFrames \cup WrittenTxxxFrames \cup WrittenLangFrames
        \cup WrittenApicFrames \cup WrittenBinaryFrames

\* The frames that come before the last one of a tag body.
EarlierFrames ==
    { Written(TIT2, <<0, 65>>, [enc |-> 0, text |-> <<65>>]),
      Written(USLT, <<1>> \o Eng \o <<255, 254, 0, 0, 255, 254, 66, 0>>,
              [enc |-> 1, language |-> Eng, description |-> <<255, 254, 0, 0>>,
               text |-> <<255, 254, 66, 0>>]),
      Written(APIC, <<3>> \o Mime \o <<3, 0>> \o PictureData,
              [enc |-> 3, picture_type |-> 3, description |-> <<0>>,
               data |-> PictureData]),
      Written(SYLT, <<1, 0, 0, 0, 0, 7>>, [data |-> <<1, 0, 0, 0, 0, 7>>]) }

EarlierRuns == UNION {[1..n -> EarlierFrames] : n \in 0..(MaxWrittenFrames - 1)}

\* What follows the last frame: nothing, fewer than 4 bytes, or at least 4
\* zero bytes.
WrittenTails ==
    {<<>>, <<0>>, <<84, 73, 84>>, <<0, 0, 0, 0>>, <<0, 0, 0, 0, 0, 0>>,
     <<0, 0, 0, 0, 84, 73, 84, 50, 0, 0, 0, 2, 0, 0, 0, 65>>}

WrittenBytes(w) == RawFrame(w.id, Len(w.body), w.body)

RECURSIVE WrittenStream(_)
WrittenStream(ws) ==
    IF ws = <<>> THEN <<>> ELSE WrittenBytes(Head(ws)) \o WrittenStream(Tail(ws))

InitWritten ==
    /\ v4 \in BOOLEAN
    /\ \E run \in EarlierRuns, last \in WrittenFrames, tail \in WrittenTails :
          /\ written = Append(run, last)
          /\ InitFrames(WrittenStream(Append(run, last)) \o tail)

SpecWritten == InitWritten /\ [][Next]_vars

\* The Frame a written frame is to be decoded to: the variant of its id,
\* its texts those of its byte runs under its encoding (TXXX: description
\* then value, the terminator between them).
ExpectedFrame(w) ==
    LET f == w.fields
        enc == EncodingTryFrom(f.enc).enc
    IN  CASE w.id = TXXX ->
                OtherText(TXXX, decode_str(f.description, enc).str
                                    \o decode_str(f.text, enc).str)
          [] w.id = USLT ->
                [kind |-> "Uslt", text |-> decode_str(f.text, enc).str,
                 language |-> f.language,
                 description |-> decode_str(f.description, enc).str]
          [] w.id = COMM -> OtherText(COMM, decode_str(f.text, enc).str)
          [] w.id = APIC ->
                [kind |-> "Apic", data |-> f.data, picture_type |-> f.picture_type,
                 description |-> decode_str(f.description, enc).str]
          [] w.id \in NoEncodingIds -> OtherBinary(w.id, f.data)
          [] OTHER -> OtherText(w.id, decode_str(f.text, enc).str)

\* C2: a tag body of one or more well-formed frames followed by at least 4
\* zero bytes, or by fewer than 4 bytes, is decoded with success to exactly
\* those frames, in their order; no frame is made of the bytes that follow
\* them.
C2_FramesBeforePadding ==
    pc = "done" =>
        /\ status = "ok"
        /\ Len(frames) = Len(written)
        /\ \A i \in 1..Len(written) : frames[i] = ExpectedFrame(written[i])
        /\ frameEnd = Len(WrittenStream(written))

\* Two frames were decoded, the second one with a UTF-16 description, and
\* the loop ended at padding that other bytes follow.
C2_Witness ==
    /\ pc = "done" /\ status = "ok"
    /\ Len(frames) = 2
    /\ written[2].id \in {TXXX, USLT, COMM, APIC} /\ written[2].fields.enc = 1
    /\ Len(buf) > frameEnd + 4
    /\ SubSeq(buf, frameEnd + 1, frameEnd + 4) = Padding
    /\ pos = frameEnd + 4

(***************************************************************************)
(* Specification SpecFile: read_file on the bytes of a file: the 10-byte   *)
(* header, the extended header when the header announces one, the tag      *)
(* body, then decode_frames on the tag body.                               *)
(***************************************************************************)
\* file.read_exact(&mut tag_headers)?; decode_header(tag_headers)?
ReadHeader ==
    /\ pc = "start"
    /\ LET h == consume_bytes(file, fpos, 10)
           r == decode_header(h.bytes)
       IN  IF ~h.ok
           THEN /\ status' = "err" /\ pc' = "done"
                /\ UNCHANGED <<hdr, header, fpos>>
           ELSE /\ hdr' = h.bytes
                /\ fpos' = h.pos
                /\ header' = r.header
                /\ IF r.st = "ok"
                   THEN pc' = "ext" /\ status' = "running"
                   ELSE pc' = "done" /\ status' = r.st
    /\ UNCHANGED <<word, out, file, buf, pos, v4, frames, frameStart, frameEnd,
                   declSize, encoding, strStart, strbuf, written>>

\* if header.extended { ... }: the 4 size bytes are read as a plain
\* big-endian number; `extended_header_size as usize - 4` below 0 panics
\* (overflow check, or the capacity overflow of vec! on the wrapped length).
SkipExtendedHeader ==
    /\ pc = "ext"
    /\ LET s == consume_bytes(file, fpos, 4)
           extended_header_size == byte_int(s.bytes)
           d == consume_bytes_sub(file, s.pos, extended_header_size, 4)
       IN  IF ~header.extended
           THEN pc' = "body" /\ status' = "running" /\ UNCHANGED fpos
           ELSE IF ~s.ok
           THEN pc' = "done" /\ status' = "err" /\ UNCHANGED fpos
           ELSE IF d.panic
           THEN pc' = "done" /\ status' = "panic" /\ fpos' = s.pos
           ELSE IF ~d.ok
           THEN pc' = "done" /\ status' = "err" /\ fpos' = s.pos
           ELSE pc' = "body" /\ status' = "running" /\ fpos' = d.pos
    /\ UNCHANGED <<word, out, hdr, header, file, buf, pos, v4, frames, frameStart,
                   frameEnd, declSize, encoding, strStart, strbuf, written>>

\* let tag_frames = vec![0; header.size]; file.read_exact(..)?; then the
\* call decode_frames(tag_frames, header.version == 4).
ReadTagFrames ==
    /\ pc = "body"
    /\ LET t == consume_bytes(file, fpos, header.size)
       IN  IF ~t.ok
           THEN /\ pc' = "done" /\ status' = "err"
                /\ UNCHANGED <<fpos, buf, v4>>
           ELSE /\ pc' = "frames" /\ status' = "running"
                /\ fpos' = t.pos
                /\ buf' = t.bytes
                /\ v4' = (header.version = 4)
    /\ UNCHANGED <<word, out, hdr, header, file, pos, frames, frameStart,
                   frameEnd, declSize, encoding, strStart, strbuf, written>>

FileVersions == {3, 4, 5}

\* The size fields of the extended headers: 3, 4, 6, and 00 00 01 00 (256
\* plain, 128 synchsafe).
ExtSizeFields == {<<0, 0, 0, 3>>, <<0, 0, 0, 4>>, <<0, 0, 0, 6>>, <<0, 0, 1, 0>>}

\* The size fields of the frames: 2, 00 00 00 82 (130 plain; bit 7 set),
\* and 00 00 01 00 (256 plain, 128 synchsafe).
FrameSizeFields == {<<0, 0, 0, 2>>, <<0, 0, 0, 130>>, <<0, 0, 1, 0>>}

\* The big-endian number of 4 bytes (the first below 128).
PlainBE(b) == b[1] * 16777216 + b[2] * 65536 + b[3] * 256 + b[4]

\* The length an extended header declares in a tag of a version.
ExtDeclared(ver, sz) == IF ver = 4 THEN Synchsafe(sz) ELSE PlainBE(sz)

\* The bytes of an extended header: its size field and the rest of the
\* length it declares.
ExtBytes(ver, sz) ==
    sz \o [i \in 1..(IF ExtDeclared(ver, sz) >= 4 THEN ExtDeclared(ver, sz) - 4 ELSE 0)
              |-> 9]

\* A TIT2 frame in ISO-8859-1 whose text is n times "A".
TextOfLen(n) == <<0>> \o [i \in 1..n |-> 65]

FileBodies ==
    {TIT2 \o sz \o <<0, 0>> \o TextOfLen(n) \o tail :
        sz \in FrameSizeFields, n \in {1, 127}, tail \in {<<>>, Padding}}

\* The bytes of a file: header (its size the length of the tag body),
\* extended header when flagged, tag body; `cut` bytes are missing at the
\* end.
FileBytes(ver, flag, sz, body, cut) ==
    LET all == MagicID3 \o <<ver, 0, flag>> \o SynchsafePack(Len(body))
                   \o (IF is_bit_set(flag, 6) THEN ExtBytes(ver, sz) ELSE <<>>)
                   \o body
    IN  SubSeq(all, 1, Len(all) - cut)

InitFile ==
    /\ pc = "start" /\ status = "running"
    /\ \E ver \in FileVersions, flag \in {0, 64}, sz \in ExtSizeFields,
          body \in FileBodies, cut \in {0, 1} :
            file = FileBytes(ver, flag, sz, body, cut)
    /\ fpos = 0
    /\ IdleWord /\ IdleHeader /\ IdleFrames /\ IdleStr /\ NotWritten

NextFile == ReadHeader \/ SkipExtendedHeader \/ ReadTagFrames \/ DecodeFrame

SpecFile == InitFile /\ [][NextFile]_vars

\* The size field of the extended header of the file.
FileExtSizeField == SubSeq(file, 11, 14)

\* C8 (as stated): with the extended flag set read_file reads the 4-byte
\* length of the extended header by the rule of the version (synchsafe in a
\* version-4 tag, plain otherwise), skips (length - 4) further bytes and
\* reads the tag body right after them; with the flag clear it skips
\* nothing; a length below 4 is returned as an error.
C8_ExtendedHeaderSkipped ==
    /\ (pc = "body" /\ header.extended) =>
            fpos = 10 + ExtDeclared(header.version, FileExtSizeField)
    /\ (pc = "body" /\ ~header.extended) => fpos = 10
    /\ (pc = "done" /\ header # NoHeader /\ header.extended /\ Len(file) >= 14
            /\ ExtDeclared(header.version, FileExtSizeField) < 4)
          => status = "err"

\* C8, what read_file keeps of it: the length is read as a plain number in
\* every version, and with a length of at least 4 the tag body is read
\* right after (length - 4) further bytes.
C8_ExtendedHeaderSkippedPlain ==
    /\ (pc = "body" /\ header.extended) =>
            /\ PlainBE(FileExtSizeField) >= 4
            /\ fpos = 10 + PlainBE(FileExtSizeField)
    /\ (pc = "body" /\ ~header.extended) => fpos = 10
    /\ pc = "frames" => buf = SubSeq(file, fpos - header.size + 1, fpos)

\* The size field of the frame last read.
LastSizeField == SubSeq(buf, frameStart + 5, frameStart + 8)

\* decode_frames has read the size field of a frame of the tag body.
FrameSizeRead == pc \in {"frames", "done"} /\ buf # <<>> /\ Len(buf) >= frameStart + 8
                    /\ (pc = "frames" => frames # <<>>)

\* C9 (as stated): the size field of a frame is decoded as a synchsafe
\* integer in a tag of major version 4 and as a plain big-endian integer
\* in every other version; the size of the header is decoded as synchsafe
\* in every version.
C9_SizeDecodingByVersion ==
    /\ header # NoHeader => header.size = Synchsafe(SubSeq(hdr, 7, 10))
    /\ FrameSizeRead =>
            declSize = IF header.version = 4 THEN Synchsafe(LastSizeField)
                       ELSE PlainBE(LastSizeField)

\* C9, what the code keeps of it: the version selects the decoder, and on
\* size fields whose bit 7s are clear the decoder of version 4 gives the
\* synchsafe value.
C9_SizeDecoderByVersion ==
    /\ pc \in {"frames", "done"} /\ buf # <<>> => v4 = (header.version = 4)
    /\ FrameSizeRead =>
            declSize = IF header.version = 4 THEN byte_int_unsynch(LastSizeField)
                       ELSE PlainBE(LastSizeField)
    /\ (FrameSizeRead /\ \A i \in 1..4 : LastSizeField[i] < 128) =>
            declSize = IF header.version = 4 THEN Synchsafe(LastSizeField)
                       ELSE PlainBE(LastSizeField)

(***************************************************************************)
(* Specification SpecPadded: decode_frames on a tag body that is empty or  *)
(* begins with padding (4 zero bytes), whatever follows the padding.       *)
(***************************************************************************)
MaxAfterPadding == 8

AfterPaddingBytes == {0, 1, 65}

\* The empty tag body, and the tag bodies that begin with 4 zero bytes.
PaddedBodies ==
    {<<>>} \cup {Padding \o t :
                    t \in UNION {[1..n -> AfterPaddingBytes] : n \in 0..MaxAfterPadding}}

InitPadded ==
    /\ v4 \in BOOLEAN
    /\ NotWritten
    /\ \E b \in PaddedBodies : InitFrames(b)

SpecPadded == InitPadded /\ [][Next]_vars

\* C11 (as stated): on a tag body that is empty or begins with 4 zero
\* bytes decode_frames returns successfully with no frames: no frame is
\* ever pushed (so none has an id read from four zero bytes) and the
\* decode ends ok.
C11_LeadingPaddingEndsCleanly ==
    /\ frames = <<>>
    /\ pc = "done" => status = "ok"

\* C11, what the code does instead: the first frame is read with no check
\* before it, so the empty body and a body too short for a frame header
\* and an encoding byte are an error, and every frame pushed first has
\* the id read from the four zero bytes.
C11_LeadingPaddingReadAsFrame ==
    /\ (pc = "done" /\ Len(buf) < 11) => (status = "err" /\ frames = <<>>)
    /\ frames # <<>> => (frames[1].kind = "Other" /\ frames[1].id = Padding)

====
